---------------------------- MODULE Spec2Model ----------------------------
(***************************************************************************)
(* A model of the SoFifa web scraper (src/fifascraper/__init__.py and its  *)
(* caller src/main.py): the rate-limit retry wrapper, the memoized         *)
(* accessors of Team and Player, the career-page extraction rules, Player  *)
(* equality, and the construction of a Season.                             *)
(*                                                                         *)
(* Conventions.  A Python str that the code inspects is a sequence of      *)
(* one-character strings.  An optional value is None (the empty tuple) or  *)
(* Some(v) (a one-element tuple).  A Python call ends in Return(v) or in   *)
(* Raise(e), e the exception.                                              *)
(***************************************************************************)
EXTENDS Integers, Sequences, FiniteSets, TLC

VARIABLES
    \* ---- one invocation of a retry_from_header decorator
    rpc,        \* "idle", "running", "returned" or "raised"
    attempts,   \* the outcomes of func(*args, **kwargs), in call order
    sleeps,     \* the arguments of the sleep() calls, in call order
    rresult,    \* what the decorator handed to its caller
    \* ---- the interpreter
    optimize,   \* TRUE when run with python -O, which strips assert statements
    \* ---- one application of an extraction method of Player to a table row
    row,        \* the <td> cells of the row, in document order
    applied,    \* the method applied to row, "none" before
    out,        \* how the method ended
    \* ---- the memoized accessors
    playersCache,   \* the functools.cache of Team.players
    statsCache,     \* the functools.cache of Player.statistics
    recordCache,    \* the functools.cache of Player.season_record
    nextOid,        \* the identity the next object created gets
    called,         \* history: the <<method, instance>> called so far
    returned,       \* history: the <<method, instance, mapping>> returned so far
    lastCall,       \* history: the last call of an accessor, None before
    \* ---- write_players
    wp,         \* the call of write_players: its list, its place in it, its end
    written,    \* the rows handed to writer.writerow, in order
    \* ---- a set of Players
    pset,       \* the elements of the set
    offered,    \* history: the Players united into it so far
    \* ---- Season
    theSeason,  \* the Season last constructed, None when __init__ raised
    seasonCall  \* history: the arguments, fetches and end of that construction

retryVars == <<rpc, attempts, sleeps, rresult>>
extractVars == <<row, applied, out>>
memoVars == <<playersCache, statsCache, recordCache, nextOid, called, returned, lastCall>>
writeVars == <<wp, written>>
setVars == <<pset, offered>>
seasonVars == <<theSeason, seasonCall>>

vars == <<rpc, attempts, sleeps, rresult, optimize, row, applied, out,
          playersCache, statsCache, recordCache, nextOid, called, returned,
          lastCall, wp, written, pset, offered, theSeason, seasonCall>>

-----------------------------------------------------------------------------
(* Python values *)

None == <<>>
Some(v) == <<v>>

Return(v) == [kind |-> "return", value |-> v]
Raise(e) == [kind |-> "raise", error |-> e]

HTTPError(code, headers) == [type |-> "HTTPError", code |-> code, headers |-> headers]
ValueError == [type |-> "ValueError"]
KeyError == [type |-> "KeyError"]
TypeError == [type |-> "TypeError"]
AttributeError == [type |-> "AttributeError"]
AssertionError == [type |-> "AssertionError"]
IndexError == [type |-> "IndexError"]

Digits == {"0", "1", "2", "3", "4", "5", "6", "7", "8", "9"}

DigitValue(c) ==
    CASE c = "0" -> 0 [] c = "1" -> 1 [] c = "2" -> 2 [] c = "3" -> 3
      [] c = "4" -> 4 [] c = "5" -> 5 [] c = "6" -> 6 [] c = "7" -> 7
      [] c = "8" -> 8 [] c = "9" -> 9

RECURSIVE DecimalValue(_)
DecimalValue(s) ==
    IF s = <<>> THEN 0
    ELSE 10 * DecimalValue(SubSeq(s, 1, Len(s) - 1)) + DigitValue(s[Len(s)])

\* float(s) on the strings of this model: a run of decimal digits is that
\* number of seconds, anything else (an HTTP-date) is a ValueError.
float(s) ==
    IF s # <<>> /\ \A i \in 1..Len(s) : s[i] \in Digits
    THEN Return(DecimalValue(s))
    ELSE Raise(ValueError)

-----------------------------------------------------------------------------
(* retry_from_header *)

DEFAULT_RETRY == 15
TOO_MANY_REQUESTS == 429

\* e.headers.get("Retry-After"): the headers of a response are modelled by
\* the one header the code reads.
HeadersGetRetryAfter(headers) == headers.RetryAfter

\* A mutation of RetryIter: the wait ignores the header.
RetryIterFixedWait(outcome) ==
    IF outcome.kind = "return" THEN Return(outcome.value)
    ELSE IF outcome.error.type # "HTTPError" THEN Raise(outcome.error)
    ELSE IF outcome.error.code # TOO_MANY_REQUESTS THEN Raise(outcome.error)
    ELSE [kind |-> "sleep", seconds |-> DEFAULT_RETRY]

\* A mutation of RetryIter: every HTTPError is retried.
RetryIterAnyStatus(outcome) ==
    IF outcome.kind = "return" THEN Return(outcome.value)
    ELSE IF outcome.error.type # "HTTPError" THEN Raise(outcome.error)
    ELSE LET retry_after == HeadersGetRetryAfter(outcome.error.headers) IN
         IF retry_after # None /\ retry_after[1] # <<>>
         THEN LET f == float(retry_after[1]) IN
              IF f.kind = "raise" THEN f
              ELSE [kind |-> "sleep", seconds |-> f.value]
         ELSE [kind |-> "sleep", seconds |-> DEFAULT_RETRY]

\* One pass of the `while True` body of decorator, given how func ended:
\* Return(v) (the decorator returns v), Raise(e) (e leaves the decorator) or
\* a sleep of `seconds` after which the loop runs again.
RetryIter(outcome) ==
    IF outcome.kind = "return" THEN Return(outcome.value)
    ELSE IF outcome.error.type # "HTTPError" THEN Raise(outcome.error)
    ELSE IF outcome.error.code # TOO_MANY_REQUESTS THEN Raise(outcome.error)
    ELSE LET retry_after == HeadersGetRetryAfter(outcome.error.headers) IN
         IF retry_after # None /\ retry_after[1] # <<>>
         THEN LET f == float(retry_after[1]) IN
              IF f.kind = "raise" THEN f
              ELSE [kind |-> "sleep", seconds |-> f.value]
         ELSE [kind |-> "sleep", seconds |-> DEFAULT_RETRY]

\* The attempts one decorator invocation is followed for.
MaxAttempts == 3

NoHeader == [RetryAfter |-> None]
RetryAfter(s) == [RetryAfter |-> Some(s)]

\* The responses that rate-limit a request.
RateLimited ==
    { Raise(HTTPError(TOO_MANY_REQUESTS, h)) :
        h \in { NoHeader, RetryAfter(<<"2">>), RetryAfter(<<"0">>),
                RetryAfter(<<"3", "0">>), RetryAfter(<<>>),
                RetryAfter(<<"W", "e", "d">>) } }

\* The ways a wrapped operation can end.
FuncOutcomes ==
    RateLimited
    \cup { Return("result"), Return("other"),
           Raise(HTTPError(500, NoHeader)), Raise(HTTPError(404, RetryAfter(<<"2">>))),
           Raise(ValueError) }

RetryIdle ==
    /\ rpc = "idle"
    /\ attempts = <<>>
    /\ sleeps = <<>>
    /\ rresult = None

\* The caller calls the decorated function.
Invoke ==
    /\ rpc \in {"idle", "returned", "raised"}
    /\ rpc' = "running"
    /\ attempts' = <<>>
    /\ sleeps' = <<>>
    /\ rresult' = None

\* One pass of the loop: func is called, and its outcome handled.
Attempt ==
    /\ rpc = "running"
    /\ Len(attempts) < MaxAttempts
    /\ \E o \in FuncOutcomes :
         LET r == RetryIter(o) IN
         /\ attempts' = Append(attempts, o)
         /\ IF r.kind = "sleep"
            THEN /\ sleeps' = Append(sleeps, r.seconds)
                 /\ UNCHANGED <<rpc, rresult>>
            ELSE /\ rpc' = (IF r.kind = "return" THEN "returned" ELSE "raised")
                 /\ rresult' = Some(r)
                 /\ UNCHANGED sleeps

RetryNext ==
    \/ Invoke /\ UNCHANGED <<optimize, extractVars, memoVars, writeVars, setVars, seasonVars>>
    \/ Attempt /\ UNCHANGED <<optimize, extractVars, memoVars, writeVars, setVars, seasonVars>>

-----------------------------------------------------------------------------
(* Claims about retry_from_header *)

Is429(o) ==
    /\ o.kind = "raise"
    /\ o.error.type = "HTTPError"
    /\ o.error.code = 429

\* C1: when the first k attempts each fail with HTTP 429 and attempt k+1
\* succeeds, the wrapper has called the operation k+1 times, has slept k
\* times, once after each 429, for the seconds of that response's
\* Retry-After header or 15 seconds without the header, and returns the
\* successful attempt's result; one 429 with Retry-After: 2 gives one
\* 2-second wait.
C1_RetryThenReturn ==
    LET n == Len(attempts) IN
    (n > 0 /\ attempts[n].kind = "return" /\ \A i \in 1..(n - 1) : Is429(attempts[i]))
    => /\ rpc = "returned"
       /\ rresult = Some(Return(attempts[n].value))
       /\ Len(sleeps) = n - 1
       /\ \A i \in 1..(n - 1) :
            LET h == attempts[i].error.headers.RetryAfter IN
            /\ h = None => sleeps[i] = 15
            /\ h = Some(<<"2">>) => sleeps[i] = 2
            /\ h = Some(<<"0">>) => sleeps[i] = 0
            /\ h = Some(<<"3", "0">>) => sleeps[i] = 30
       /\ (n = 2 /\ attempts[1] = Raise(HTTPError(429, RetryAfter(<<"2">>))))
            => sleeps = <<2>>

C1_Witness ==
    /\ rpc = "returned"
    /\ Len(attempts) = 3
    /\ attempts[1] = Raise(HTTPError(429, RetryAfter(<<"2">>)))
    /\ attempts[2] = Raise(HTTPError(429, NoHeader))
    /\ sleeps = <<2, 15>>

\* C2: a failure of the wrapped operation that is not an HTTP 429 leaves the
\* wrapper from the attempt it occurs in, unchanged, with no sleep after it
\* and no further attempt, on the first attempt and after earlier retries.
C2_OtherErrorsPropagate ==
    \A i \in 1..Len(attempts) :
        (attempts[i].kind = "raise" /\ ~Is429(attempts[i]))
        => /\ i = Len(attempts)
           /\ rpc = "raised"
           /\ rresult = Some(Raise(attempts[i].error))
           /\ Len(sleeps) = i - 1

C2_Witness ==
    /\ rpc = "raised"
    /\ Len(attempts) = 3
    /\ attempts[3] = Raise(HTTPError(500, NoHeader))
    /\ Len(sleeps) = 2

-----------------------------------------------------------------------------
(* str methods and the regular expressions of the module *)

Whitespace == {" "}

UpperCase ==
    <<"A", "B", "C", "D", "E", "F", "G", "H", "I", "J", "K", "L", "M",
      "N", "O", "P", "Q", "R", "S", "T", "U", "V", "W", "X", "Y", "Z">>
LowerCase ==
    <<"a", "b", "c", "d", "e", "f", "g", "h", "i", "j", "k", "l", "m",
      "n", "o", "p", "q", "r", "s", "t", "u", "v", "w", "x", "y", "z">>

LowerChar(c) ==
    IF \E i \in 1..26 : UpperCase[i] = c
    THEN LowerCase[CHOOSE i \in 1..26 : UpperCase[i] = c]
    ELSE c

\* str.lower()
lower(s) == [i \in 1..Len(s) |-> LowerChar(s[i])]

\* str.strip()
RECURSIVE strip(_)
strip(s) ==
    IF s = <<>> THEN s
    ELSE IF s[1] \in Whitespace THEN strip(SubSeq(s, 2, Len(s)))
    ELSE IF s[Len(s)] \in Whitespace THEN strip(SubSeq(s, 1, Len(s) - 1))
    ELSE s

AllDigits(s, from, to) ==
    /\ to <= Len(s)
    /\ \A i \in from..to : s[i] \in Digits

HasLiteralAt(s, i, lit) ==
    /\ i + Len(lit) - 1 <= Len(s)
    /\ SubSeq(s, i, i + Len(lit) - 1) = lit

\* The end of the run of digits of s that starts at i (i - 1 when s[i] is
\* no digit): the only place where \d+ can stop before a non-digit.
RECURSIVE DigitRunEnd(_, _)
DigitRunEnd(s, i) ==
    IF i <= Len(s) /\ s[i] \in Digits THEN DigitRunEnd(s, i + 1) ELSE i - 1

\* r"/team/(\d+)/\S+/" matches s from position i.
TeamPatternAt(s, i) ==
    LET d == i + 6
        e == DigitRunEnd(s, d)
    IN  /\ HasLiteralAt(s, i, <<"/", "t", "e", "a", "m", "/">>)
        /\ e >= d
        /\ e + 1 <= Len(s) /\ s[e + 1] = "/"
        /\ \E j \in (e + 3)..Len(s) :
             /\ s[j] = "/"
             /\ \A k \in (e + 2)..(j - 1) : s[k] \notin Whitespace

\* extract_team_from_href: re.search takes the leftmost match and group 1 is
\* its run of digits.
extract_team_from_href(href) ==
    IF \E i \in 1..Len(href) : TeamPatternAt(href, i)
    THEN LET i == CHOOSE i \in 1..Len(href) :
                    /\ TeamPatternAt(href, i)
                    /\ \A j \in 1..(i - 1) : ~TeamPatternAt(href, j)
         IN  Return(SubSeq(href, i + 6, DigitRunEnd(href, i + 6)))
    ELSE Raise(ValueError)

\* generate_season_query
generate_season_query(season, week) == season \o <<"0", "0">> \o week

-----------------------------------------------------------------------------
(* The parsed document: tags and their attributes *)

\* An <a> tag: href is None or Some(link target).
ATag(href) == [href |-> href]

\* A <td> tag: its title attribute, its .string (None when the cell has no
\* single text child), and its first <a> descendant, each None or Some(_).
Cell(title, string, a) == [title |-> title, string |-> string, a |-> a]

WEEK_NUMBER == <<"0", "1">>
LEAGUE_NUMBER == <<"1", "3">>

\* Team.__init__
Team(name, identifier, season, week) ==
    [name |-> name, identifier |-> identifier, season |-> season, week |-> week]

-----------------------------------------------------------------------------
(* The extraction methods of Player *)

\* Player._has_title
_has_title(column) == column.title # None /\ column.string # None

\* Player._extract_data.  debug is __debug__: the asserts run.  The value
\* is record.string[0], the first character of the cell's text.
_extract_data(record, debug) ==
    IF debug /\ record.title = None THEN Raise(AssertionError)
    ELSE IF debug /\ (record.string = None \/ record.string = Some(<<>>))
         THEN Raise(AssertionError)
    ELSE IF record.string = None THEN Raise(TypeError)
    ELSE IF record.string[1] = <<>> THEN Raise(IndexError)
    ELSE IF record.title = None THEN Raise(AttributeError)
    ELSE Return(<<lower(record.title[1]), <<record.string[1][1]>> >>)

\* Player._extract_team
_extract_team(records, season) ==
    IF Len(records) < 2 THEN Raise(IndexError)
    ELSE IF records[2].a = None THEN Raise(AttributeError)
    ELSE IF records[2].a[1].href = None THEN Raise(TypeError)
    ELSE LET found == extract_team_from_href(records[2].a[1].href)
             team_number == IF found.kind = "raise" THEN <<"-">> ELSE found.value
         IN  IF records[2].title = None THEN Raise(AttributeError)
             ELSE Return(Team(strip(records[2].title[1]), team_number, season,
                              WEEK_NUMBER))

\* Player._extract_season: re.match anchors r"\d{4}/(\d{4})|\d{4}" at the
\* start of the label only, and tries the split-season alternative first.
_extract_season(records) ==
    IF Len(records) < 1 THEN Raise(IndexError)
    ELSE IF records[1].string = None THEN Raise(TypeError)
    ELSE LET raw_season == records[1].string[1] IN
         IF /\ AllDigits(raw_season, 1, 4)
            /\ HasLiteralAt(raw_season, 5, <<"/">>)
            /\ AllDigits(raw_season, 6, 9)
         THEN LET season == SubSeq(raw_season, 6, 9) IN
              Return(SubSeq(season, 3, Len(season)))
         ELSE IF AllDigits(raw_season, 1, 4)
         THEN LET season == SubSeq(raw_season, 1, 4) IN
              Return(SubSeq(season, 3, Len(season)))
         ELSE Raise(ValueError)

(* dict: the pairs <<key, value>> in insertion order, keys distinct *)

DictHas(d, k) == \E i \in 1..Len(d) : d[i][1] = k
DictGet(d, k) == d[CHOOSE i \in 1..Len(d) : d[i][1] = k][2]
DictKeys(d) == { d[i][1] : i \in 1..Len(d) }
DictValues(d) == [i \in 1..Len(d) |-> d[i][2]]

\* d[k] = v
DictSet(d, k, v) ==
    IF DictHas(d, k)
    THEN [i \in 1..Len(d) |-> IF d[i][1] = k THEN <<k, v>> ELSE d[i]]
    ELSE Append(d, <<k, v>>)

\* dict(pairs)
RECURSIVE DictOf(_)
DictOf(pairs) ==
    IF pairs = <<>> THEN <<>>
    ELSE LET p == pairs[Len(pairs)] IN
         DictSet(DictOf(SubSeq(pairs, 1, Len(pairs) - 1)), p[1], p[2])

\* The first exception among results, in order, or None.
RECURSIVE FirstRaise(_)
FirstRaise(results) ==
    IF results = <<>> THEN None
    ELSE IF results[1].kind = "raise" THEN Some(results[1])
    ELSE FirstRaise(SubSeq(results, 2, Len(results)))

\* filter(f, records) for f = _has_title
RECURSIVE FilterHasTitle(_)
FilterHasTitle(records) ==
    IF records = <<>> THEN <<>>
    ELSE (IF _has_title(records[1]) THEN <<records[1]>> ELSE <<>>)
         \o FilterHasTitle(SubSeq(records, 2, Len(records)))

\* The keyword arguments _create_record names itself.
RequiredKeys == { <<"s", "e", "a", "s", "o", "n">>, <<"p", "l", "a", "y", "e", "r">>, <<"t", "e", "a", "m">> }

\* Player._create_record: (record["season"], record), the record being its
\* three required fields and stats, the dict of the titled cells.
_create_record(self, records, debug) ==
    LET s == _extract_season(records) IN
    IF s.kind = "raise" THEN s
    ELSE LET t == _extract_team(records, s.value) IN
         IF t.kind = "raise" THEN t
         ELSE LET titled == FilterHasTitle(records)
                  data == [i \in 1..Len(titled) |-> _extract_data(titled[i], debug)]
                  bad == FirstRaise(data)
              IN  IF bad # None THEN bad[1]
                  ELSE LET stats == DictOf([i \in 1..Len(data) |-> data[i].value]) IN
                       IF DictKeys(stats) \cap RequiredKeys # {}
                       THEN Raise(TypeError)
                       ELSE Return(<<s.value,
                                     [season |-> s.value, player |-> self,
                                      team |-> t.value, stats |-> stats]>>)

-----------------------------------------------------------------------------
(* Player, and the rows the extraction methods are applied to *)

\* A Player instance: oid is the identity of the object.
Player(oid, name, identifier) == [oid |-> oid, name |-> name, identifier |-> identifier]

\* The longest label drawn from the whole alphabet.
MaxLabelLen == 5

LabelAlphabet == {"1", "9", "/", "x"}

Years == { <<"2", "0", "2", "2">>, <<"2", "0", "2", "3">>, <<"1", "9", "9", "9">> }

\* Season labels: every string over the alphabet up to MaxLabelLen, and the
\* split seasons, bare and followed by one more character.
Labels ==
    UNION { [1..k -> LabelAlphabet] : k \in 0..MaxLabelLen }
    \cup { y1 \o <<"/">> \o y2 \o sfx :
             y1 \in Years, y2 \in Years, sfx \in { <<>>, <<"x">>, <<"7">>, <<" ">> } }
    \cup { <<"2", "0", "2", "2", "/", "2", "3">>, <<"2", "2", "/", "2", "3">>, <<"2", "0", "2", "3", " ">> }

SeasonCell(label) == Cell(None, Some(label), None)

TeamHrefs ==
    { <<"/", "t", "e", "a", "m", "/", "1", "/", "a", "b", "/">>, <<"/", "t", "e", "a", "m", "/", "1", "0", "/", "a", "r", "s", "e", "n", "a", "l", "/">>, <<"x", "/", "t", "e", "a", "m", "/", "2", "4", "3", "/", "r", "-", "m", "/", "?", "h", "l", "=", "e", "n">>,
      <<"/", "t", "e", "a", "m", "/", "1", "0", "/">>, <<"/", "t", "e", "a", "m", "s">>, <<"/", "t", "e", "a", "m", "/", "/", "a", "b", "/">>, <<"/", "t", "e", "a", "m", "/", "1", "/", "a", " ", "b", "/">>, <<>> }

TeamCells ==
    { Cell(Some(<<" ", "A", "r", "s", "e", "n", "a", "l", " ">>), None, Some(ATag(Some(h)))) : h \in TeamHrefs }
    \cup { Cell(Some(<<"F", "r", "e", "e">>), None, None),
           Cell(Some(<<"F", "r", "e", "e">>), Some(<<"F", "r", "e", "e">>), None),
           Cell(Some(<<"A", "j", "a", "x">>), Some(<<"A", "j", "a", "x">>), Some(ATag(Some(<<"/", "t", "e", "a", "m", "/", "1", "/", "a", "b", "/">>)))),
           Cell(Some(<<"A", "j", "a", "x">>), None, Some(ATag(None))),
           Cell(None, None, Some(ATag(Some(<<"/", "t", "e", "a", "m", "/", "1", "/", "a", "b", "/">>)))) }

DataCells ==
    { Cell(Some(<<"G", "o", "a", "l", "s">>), Some(<<"1", "2">>), None),
      Cell(Some(<<"G", "o", "a", "l", "s">>), Some(<<"5">>), None),
      Cell(Some(<<"A", "s", "s", "i", "s", "t", "s">>), Some(<<"2">>), None),
      Cell(Some(<<"R", "a", "t", "i", "n", "g">>), Some(<<"-", "?">>), None),
      Cell(Some(<<"S", "a", "v", "e", "s">>), None, None),
      Cell(None, Some(<<"7">>), None),
      Cell(Some(<<"T", "e", "a", "m">>), Some(<<"x">>), None),
      Cell(Some(<<"S", "h", "o", "t", "s">>), Some(<<>>), None) }

\* The data cells of one row.
MaxDataCells == 2

DataCellSeqs == UNION { [1..k -> DataCells] : k \in 0..MaxDataCells }

GoodLabel == <<"2", "0", "2", "2", "/", "2", "0", "2", "3">>
GoodTeamCell == Cell(Some(<<" ", "A", "r", "s", "e", "n", "a", "l", " ">>), None, Some(ATag(Some(<<"/", "t", "e", "a", "m", "/", "1", "/", "a", "b", "/">>))))

ExtractRows ==
    { <<SeasonCell(l), GoodTeamCell>> : l \in Labels }
    \cup { <<SeasonCell(l), tc>> \o data :
             l \in {GoodLabel, <<"2", "0", "2", "1">>}, tc \in TeamCells, data \in DataCellSeqs }
    \cup { <<Cell(None, None, None), GoodTeamCell>>, <<SeasonCell(GoodLabel)>>, <<>> }

ThePlayer == Player(1, <<"A", "n", "n">>, <<"1", "0">>)

ExtractIdle ==
    /\ row = <<>>
    /\ applied = "none"
    /\ out = None

ExtractInit ==
    /\ row \in ExtractRows
    /\ applied = "none"
    /\ out = None
    /\ optimize \in BOOLEAN

\* self._extract_season(records)
Apply_extract_season ==
    /\ applied = "none"
    /\ applied' = "_extract_season"
    /\ out' = Some(_extract_season(row))
    /\ UNCHANGED <<row, optimize>>

\* self._extract_team(records, season), season being what _extract_season
\* returned, as in _create_record.
Apply_extract_team ==
    /\ applied = "none"
    /\ _extract_season(row).kind = "return"
    /\ applied' = "_extract_team"
    /\ out' = Some(_extract_team(row, _extract_season(row).value))
    /\ UNCHANGED <<row, optimize>>

\* self._create_record(season_data)
Apply_create_record ==
    /\ applied = "none"
    /\ applied' = "_create_record"
    /\ out' = Some(_create_record(ThePlayer, row, ~optimize))
    /\ UNCHANGED <<row, optimize>>

ExtractNext ==
    \/ Apply_extract_season /\ UNCHANGED <<retryVars, memoVars, writeVars, setVars, seasonVars>>
    \/ Apply_extract_team /\ UNCHANGED <<retryVars, memoVars, writeVars, setVars, seasonVars>>
    \/ Apply_create_record /\ UNCHANGED <<retryVars, memoVars, writeVars, setVars, seasonVars>>

-----------------------------------------------------------------------------
(* Claims about the extraction methods *)

IsYearLabel(l) == Len(l) = 4 /\ AllDigits(l, 1, 4)

IsSplitLabel(l) ==
    /\ Len(l) = 9
    /\ AllDigits(l, 1, 4)
    /\ l[5] = "/"
    /\ AllDigits(l, 6, 9)

\* A cell that has a title attribute and non-empty text.
IsTitled(c) == c.title # None /\ c.string # None /\ c.string # Some(<<>>)

\* C6: for every career-page data row, each cell with a title attribute and
\* non-empty text contributes to the row's SeasonRecord one entry whose key is
\* the lower-cased title and whose value is the cell's complete displayed
\* text; the record's season is the code from the first cell and the record
\* is returned under that season code.
C6_CellTextIsValue ==
    (applied = "_create_record" /\ out[1].kind = "return")
    => LET key == out[1].value[1]
           record == out[1].value[2]
       IN  /\ key = _extract_season(row).value
           /\ record.season = key
           /\ \A i \in 1..Len(row) :
                IsTitled(row[i])
                => /\ DictHas(record.stats, lower(row[i].title[1]))
                   /\ \E j \in 1..Len(row) :
                        /\ IsTitled(row[j])
                        /\ lower(row[j].title[1]) = lower(row[i].title[1])
                        /\ DictGet(record.stats, lower(row[i].title[1]))
                             = row[j].string[1]

\* C7: _extract_season returns the last two digits of a label that is exactly
\* a 4-digit year, the last two digits of the second year of a label that is
\* exactly two 4-digit years separated by '/', and fails with the
\* season-detection error on every other label; every value it returns is 2
\* characters long.
C7_SeasonCodeOrError ==
    (applied = "_extract_season" /\ Len(row) >= 1 /\ row[1].string # None)
    => LET l == row[1].string[1] IN
       /\ IsYearLabel(l) => out[1] = Return(SubSeq(l, 3, 4))
       /\ IsSplitLabel(l) => out[1] = Return(SubSeq(l, 8, 9))
       /\ (~IsYearLabel(l) /\ ~IsSplitLabel(l)) => out[1] = Raise(ValueError)
       /\ out[1].kind = "return" => Len(out[1].value) = 2

\* The team cell of the row resolves to a team identifier: it carries a link
\* whose target matches the team path pattern.
TeamCellResolves(c) ==
    /\ c.a # None
    /\ c.a[1].href # None
    /\ \E i \in 1..Len(c.a[1].href) : TeamPatternAt(c.a[1].href, i)

\* C8: for every row whose team cell cannot be resolved to a team identifier,
\* because its link target does not match the team path pattern or because it
\* carries no link at all, _extract_team returns a Team whose identifier is
\* "-" and raises no error.
C8_SentinelTeam ==
    (/\ applied = "_extract_team"
     /\ Len(row) >= 2
     /\ row[2].title # None
     /\ ~TeamCellResolves(row[2]))
    => /\ out[1].kind = "return"
       /\ out[1].value.identifier = <<"-">>

-----------------------------------------------------------------------------
(* Documents, and what one request for a document ends in *)

BASE_URL == <<"h", "t", "t", "p", "s", ":", "/", "/", "s", "o", "f", "i", "f", "a", ".", "c", "o", "m">>

\* A parsed document: whether it holds a <table>, and its <tr> rows in
\* document order.
Page(table, trs) == [table |-> table, trs |-> trs]

\* An <a> tag with its text: the tag the listing pages name an entity by.
LinkTag(href, string) == [href |-> href, string |-> string]

\* A node the listing extractors step over.
Filler == LinkTag(None, None)

\* A <tr> of a listing page as list(tr) sees it, each child as the list of
\* its own children: the link is child 1 of child 3 (counting from 0).
ListingRow(link) == <<<<>>, <<>>, <<>>, <<Filler, link>>>>

\* A <tr> of a career page is the sequence of its <td> cells.
HeaderRow == <<>>

\* get_bs4(url): Return(page), or Raise(HTTPError(...)) from urlopen.
\* The response is the site's choice; the url is what the model records.

\* r"/player/(\d+)/\S+/(\d+)" matches s from position i.
PlayerPatternAt(s, i) ==
    LET d == i + 8
        e == DigitRunEnd(s, d)
    IN  /\ HasLiteralAt(s, i, <<"/", "p", "l", "a", "y", "e", "r", "/">>)
        /\ e >= d
        /\ e + 1 <= Len(s) /\ s[e + 1] = "/"
        /\ \E j \in (e + 3)..(Len(s) - 1) :
             /\ s[j] = "/"
             /\ s[j + 1] \in Digits
             /\ \A k \in (e + 2)..(j - 1) : s[k] \notin Whitespace

PLAYER_NAME_INDEX == 3
TEAM_NAME_INDEX == 3

\* Team._extract_player_mapping; oid is the identity of the Player it creates.
_extract_player_mapping(raw_player_data, oid, debug) ==
    IF Len(raw_player_data) < PLAYER_NAME_INDEX + 1 THEN Raise(IndexError)
    ELSE LET raw_player == raw_player_data[PLAYER_NAME_INDEX + 1] IN
    IF Len(raw_player) < 2 THEN Raise(IndexError)
    ELSE LET extraction == raw_player[2]
             player_url == extraction.href
             player_name == extraction.string
         IN
    IF debug /\ player_url = None THEN Raise(AssertionError)
    ELSE IF player_url = None THEN Raise(TypeError)
    ELSE IF ~\E i \in 1..Len(player_url[1]) : PlayerPatternAt(player_url[1], i)
         THEN Raise(ValueError)
    ELSE LET i == CHOOSE i \in 1..Len(player_url[1]) :
                    /\ PlayerPatternAt(player_url[1], i)
                    /\ \A j \in 1..(i - 1) : ~PlayerPatternAt(player_url[1], j)
             player_number == SubSeq(player_url[1], i + 8,
                                     DigitRunEnd(player_url[1], i + 8))
         IN
    IF debug /\ (player_name = None \/ player_name = Some(<<>>))
    THEN Raise(AssertionError)
    ELSE LET name == IF player_name = None THEN None ELSE player_name[1] IN
         Return(<<name, Player(oid, name, player_number)>>)

\* Season._extract_team_mapping
_extract_team_mapping(self, raw_team_data, debug) ==
    IF Len(raw_team_data) < TEAM_NAME_INDEX + 1 THEN Raise(IndexError)
    ELSE LET raw_team == raw_team_data[TEAM_NAME_INDEX + 1] IN
    IF Len(raw_team) < 2 THEN Raise(IndexError)
    ELSE LET raw_team_name == raw_team[2]
             team_name == raw_team_name.string
             team_number == raw_team_name.href
         IN
    IF debug /\ (team_name = None \/ team_name = Some(<<>>))
    THEN Raise(AssertionError)
    ELSE IF debug /\ team_number = None THEN Raise(AssertionError)
    ELSE IF team_number = None THEN Raise(TypeError)
    ELSE LET found == extract_team_from_href(team_number[1]) IN
         IF found.kind = "raise" THEN found
         ELSE LET name == IF team_name = None THEN None ELSE team_name[1] IN
              Return(<<name, Team(name, found.value, self.season, self.week)>>)

\* rows[i] for i in range(2, len(rows))
DataRows(rows) == SubSeq(rows, 3, Len(rows))

\* dict(results of the generator), or the first exception the generator
\* raises.
DictOfResults(results) ==
    LET bad == FirstRaise(results) IN
    IF bad # None THEN bad[1]
    ELSE Return(DictOf([i \in 1..Len(results) |-> results[i].value]))

\* The body of Player.statistics, given what get_bs4(url) ended in.
StatisticsBody(self, response, debug) ==
    IF response.kind = "raise" THEN response
    ELSE LET soup == response.value IN
         IF debug /\ ~soup.table THEN Raise(AssertionError)
         ELSE IF ~soup.table THEN Return(<<>>)
         ELSE LET seasons == DataRows(soup.trs) IN
              DictOfResults([i \in 1..Len(seasons) |->
                                _create_record(self, seasons[i], debug)])

\* The body of Team.players, given what get_bs4(url) ended in; the Players
\* it creates get the identities oid + 1, oid + 2, ...
PlayersBody(response, oid, debug) ==
    IF response.kind = "raise" THEN response
    ELSE LET players == DataRows(response.value.trs) IN
         DictOfResults([i \in 1..Len(players) |->
                           _extract_player_mapping(players[i], oid + i, debug)])

\* The body of Season._get_teams, given what get_bs4(url) ended in.
GetTeamsBody(self, response, debug) ==
    IF response.kind = "raise" THEN response
    ELSE LET teams == DataRows(response.value.trs) IN
         DictOfResults([i \in 1..Len(teams) |->
                           _extract_team_mapping(self, teams[i], debug)])

\* decorator(*args, **kwargs) run to its end: outcomes[i] is how the i-th call
\* of func ends.  calls is the number of calls made, and result is "retry"
\* when every outcome given was a 429 that was slept on.
RECURSIVE RetryRun(_)
RetryRun(outcomes) ==
    IF outcomes = <<>> THEN [result |-> [kind |-> "retry"], calls |-> 0, sleeps |-> <<>>]
    ELSE LET r == RetryIter(outcomes[1]) IN
         IF r.kind = "sleep"
         THEN LET rest == RetryRun(SubSeq(outcomes, 2, Len(outcomes))) IN
              [result |-> rest.result, calls |-> rest.calls + 1,
               sleeps |-> <<r.seconds>> \o rest.sleeps]
         ELSE [result |-> r, calls |-> 1, sleeps |-> <<>>]

-----------------------------------------------------------------------------
(* Player equality, and the functools.cache of the memoized methods *)

\* The number of values hash() spreads the identifiers over.
HashMod == 3

\* hash(s) of an identifier, a str of digits: equal strings hash equally and
\* different strings may collide.
StrHash(s) == DecimalValue(s) % HashMod

\* A mutation of Player.__eq__: the name takes part in the comparison.
Player__eq__WithName(self, other) ==
    other.identifier = self.identifier /\ other.name = self.name

\* Player.__eq__, for other a Player
Player__eq__(self, other) == other.identifier = self.identifier

\* Player.__hash__
Player__hash__(self) == StrHash(self.identifier)

\* A mutation of PlayerKeyMatch: a key is found by the identity of the object
\* alone, as for a class that defines neither __eq__ nor __hash__.
PlayerKeyMatchIdentity(stored, probe) == stored.oid = probe.oid

\* The test a dict or a set makes of a stored key against a probe: the same
\* hash, and the same object or equal objects.
PlayerKeyMatch(stored, probe) ==
    /\ Player__hash__(stored) = Player__hash__(probe)
    /\ (stored.oid = probe.oid \/ Player__eq__(probe, stored))

\* The urls of the three templates.
PlayerUrl(self) == BASE_URL \o <<"/", "p", "l", "a", "y", "e", "r", "/">> \o self.identifier \o <<"/", "l", "i", "v", "e", "&", "s", "e", "t", "=", "t", "r", "u", "e">>

TeamUrl(self) ==
    BASE_URL \o <<"/", "p", "l", "a", "y", "e", "r", "s", "?", "t", "m", "=">> \o self.identifier \o <<"&", "r", "=">>
    \o generate_season_query(self.season, self.week) \o <<"&", "s", "e", "t", "=", "t", "r", "u", "e">>

\* A cache is the sequence of its entries [key, value], in insertion order.
\* The entry of Player.statistics' cache that self finds, or None.
StatsCacheFind(cache, self) ==
    IF \E i \in 1..Len(cache) : PlayerKeyMatch(cache[i].key, self)
    THEN Some(cache[CHOOSE i \in 1..Len(cache) : PlayerKeyMatch(cache[i].key, self)])
    ELSE None

\* The entry of Team.players' cache that the team finds, or None.  Team
\* defines neither __eq__ nor __hash__: a key is found by identity, which is
\* the team's place t among the season's teams.
PlayersCacheFind(cache, t) ==
    IF \E i \in 1..Len(cache) : cache[i].key = t
    THEN Some(cache[CHOOSE i \in 1..Len(cache) : cache[i].key = t])
    ELSE None

\* The entry of Player.season_record's cache that (self, season) finds.
RecordCacheFind(cache, self, season) ==
    IF \E i \in 1..Len(cache) :
          PlayerKeyMatch(cache[i].key[1], self) /\ cache[i].key[2] = season
    THEN Some(cache[CHOOSE i \in 1..Len(cache) :
                      PlayerKeyMatch(cache[i].key[1], self) /\ cache[i].key[2] = season])
    ELSE None

\* What a miss of a functools.cache wrapper ends in, run being the decorated
\* body run to its end against the responses of script: a returned mapping
\* gets the identity oid and is stored under key, made[i] further objects
\* having been created from the i-th response; an exception is stored nowhere.
CacheMiss(run, cache, key, oid, made, url, script) ==
    [result |-> IF run.result.kind = "return"
                THEN Return([oid |-> oid, items |-> run.result.value])
                ELSE run.result,
     fetched |-> [i \in 1..run.calls |-> url],
     response |-> Some(script[run.calls]),
     cache |-> IF run.result.kind = "return"
               THEN Append(cache, [key |-> key,
                                   value |-> [oid |-> oid, items |-> run.result.value]])
               ELSE cache,
     oid |-> IF run.result.kind = "return" THEN oid + 1 + made[run.calls] ELSE oid]

\* A hit of a functools.cache wrapper on the entry found.
CacheHit(found, cache, oid) ==
    [result |-> Return(found.value), fetched |-> <<>>, response |-> None,
     cache |-> cache, oid |-> oid]

\* The decorated body of Player.statistics run to its end.
StatisticsRun(self, script, debug) ==
    RetryRun([i \in 1..Len(script) |-> StatisticsBody(self, script[i], debug)])

\* The decorated body of Team.players run to its end.
PlayersRun(oid, script, debug) ==
    RetryRun([i \in 1..Len(script) |-> PlayersBody(script[i], oid, debug)])

\* A mutation of StatisticsCall: the cache is never consulted.
StatisticsCallUncached(cache, oid, self, script, debug) ==
    CacheMiss(StatisticsRun(self, script, debug), cache, self, oid,
              [i \in 1..Len(script) |-> 0], PlayerUrl(self), script)

\* self.statistics(), the cached and retried method: a hit returns the stored
\* mapping; a miss runs the decorated body against the site's responses
\* (script) and stores what it returns, and stores nothing when it raises.
\* oid is the identity the mapping gets.  The call's result, the urls it
\* fetched, the last response it read, and the cache and the next free
\* identity after it.
StatisticsCall(cache, oid, self, script, debug) ==
    IF StatsCacheFind(cache, self) # None
    THEN CacheHit(StatsCacheFind(cache, self)[1], cache, oid)
    ELSE CacheMiss(StatisticsRun(self, script, debug), cache, self, oid,
                   [i \in 1..Len(script) |-> 0], PlayerUrl(self), script)

\* team.players() for the season's t-th team, likewise; the mapping gets the
\* identity oid and the Players of its rows the identities after it.
PlayersCall(cache, oid, t, team, script, debug) ==
    IF PlayersCacheFind(cache, t) # None
    THEN CacheHit(PlayersCacheFind(cache, t)[1], cache, oid)
    ELSE CacheMiss(PlayersRun(oid, script, debug), cache, t, oid,
                   [i \in 1..Len(script) |->
                       IF script[i].kind = "return"
                       THEN Len(DataRows(script[i].value.trs)) ELSE 0],
                   TeamUrl(team), script)

-----------------------------------------------------------------------------
(* The site *)

HasPrefix(s, p) == HasLiteralAt(s, 1, p)

\* The end of the run of characters of s from i that are not "&".
RECURSIVE ParamEnd(_, _)
ParamEnd(s, i) ==
    IF i <= Len(s) /\ s[i] # "&" THEN ParamEnd(s, i + 1) ELSE i - 1

\* The value of the query parameter `name` of url, None when url has none.
QueryParam(url, name) ==
    LET starts == { i \in 2..Len(url) :
                      /\ url[i - 1] \in {"?", "&"}
                      /\ HasLiteralAt(url, i, name \o <<"=">>) }
    IN  IF starts = {} THEN None
        ELSE LET i == CHOOSE i \in starts : \A j \in starts : i <= j
                 v == i + Len(name) + 1
             IN  Some(SubSeq(url, v, ParamEnd(url, v)))

GoalsCell == Cell(Some(<<"G", "o", "a", "l", "s">>), Some(<<"1", "2">>), None)

CareerRow(label) == <<SeasonCell(label), GoodTeamCell, GoalsCell>>

LinkRow(href, name) == ListingRow(LinkTag(Some(href), Some(name)))

NotFound == Raise(HTTPError(404, NoHeader))

\* The team listing of a league.
ListingOf(lg) ==
    CASE lg = Some(<<"1", "3">>) ->
           Return(Page(TRUE, <<HeaderRow, HeaderRow,
                               LinkRow(<<"/", "t", "e", "a", "m", "/", "1", "/", "a", "r", "s", "e", "n", "a", "l", "/">>, <<"A", "r", "s", "e", "n", "a", "l">>),
                               LinkRow(<<"/", "t", "e", "a", "m", "/", "1", "0", "/", "a", "j", "a", "x", "/">>, <<"A", "j", "a", "x">>)>>))
      [] lg = Some(<<"3", "9">>) ->
           Return(Page(TRUE, <<HeaderRow, HeaderRow,
                               LinkRow(<<"/", "t", "e", "a", "m", "/", "2", "1", "/", "b", "a", "y", "e", "r", "n", "/">>, <<"B", "a", "y", "e", "r", "n">>)>>))
      [] OTHER -> NotFound

\* The roster of a team.
RosterOf(tm) ==
    CASE tm = Some(<<"1">>) ->
           Return(Page(TRUE, <<HeaderRow, HeaderRow,
                               LinkRow(<<"/", "p", "l", "a", "y", "e", "r", "/", "1", "0", "/", "a", "n", "n", "/", "2", "3", "0", "0", "0", "1">>, <<"A", "n", "n">>)>>))
      [] tm = Some(<<"1", "0">>) ->
           Return(Page(TRUE, <<HeaderRow, HeaderRow,
                               LinkRow(<<"/", "p", "l", "a", "y", "e", "r", "/", "1", "0", "/", "a", "n", "n", "/", "2", "3", "0", "0", "0", "1">>, <<"A", ".", " ", "L", "e", "e">>),
                               LinkRow(<<"/", "p", "l", "a", "y", "e", "r", "/", "2", "0", "/", "c", "y", "/", "2", "3", "0", "0", "0", "1">>, <<"C", "y">>)>>))
      [] tm = Some(<<"2", "1">>) ->
           Return(Page(TRUE, <<HeaderRow, HeaderRow,
                               LinkRow(<<"/", "p", "l", "a", "y", "e", "r", "/", "3", "0", "/", "b", "o", "/", "2", "3", "0", "0", "0", "1">>, <<"B", "o">>)>>))
      [] OTHER -> NotFound

\* The career page of a player: player 10 has the seasons 23 and 22,
\* player 20 is new and has no table, player 30 has the season 22 only.
CareerOf(identifier) ==
    CASE identifier = <<"1", "0">> ->
           Return(Page(TRUE, <<HeaderRow, HeaderRow, CareerRow(<<"2", "0", "2", "2", "/", "2", "0", "2", "3">>),
                               CareerRow(<<"2", "0", "2", "1", "/", "2", "0", "2", "2">>)>>))
      [] identifier = <<"2", "0">> -> Return(Page(FALSE, <<>>))
      [] identifier = <<"3", "0">> ->
           Return(Page(TRUE, <<HeaderRow, HeaderRow, CareerRow(<<"2", "0", "2", "1", "/", "2", "0", "2", "2">>)>>))
      [] OTHER -> NotFound

\* What the site holds at url: what get_bs4(url) ends in when the request is
\* neither throttled nor fails.
Site(url) ==
    IF HasPrefix(url, BASE_URL \o <<"/", "t", "e", "a", "m", "s", "?">>) THEN ListingOf(QueryParam(url, <<"l", "g">>))
    ELSE IF HasPrefix(url, BASE_URL \o <<"/", "p", "l", "a", "y", "e", "r", "s", "?">>)
    THEN RosterOf(QueryParam(url, <<"t", "m">>))
    ELSE IF HasPrefix(url, BASE_URL \o <<"/", "p", "l", "a", "y", "e", "r", "/">>)
    THEN CareerOf(SubSeq(url, Len(BASE_URL) + 9,
                         DigitRunEnd(url, Len(BASE_URL) + 9)))
    ELSE NotFound

\* The 429 responses in a row that one call is followed through.
MaxRetries == 1

Throttled == Raise(HTTPError(TOO_MANY_REQUESTS, NoHeader))
ServerError == Raise(HTTPError(500, NoHeader))

\* What the requests of one call for url end in: k throttled requests, then
\* a server error or what the site holds.
ScriptFor(url, k, fails) ==
    [i \in 1..k |-> Throttled] \o <<IF fails THEN ServerError ELSE Site(url)>>

\* What self.season_record(season) ends in on a miss, call being the call of
\* self.statistics() it makes: statistics()[season], a KeyError when the
\* mapping lacks the season; only a returned record is stored.
SeasonRecordMiss(call, rcache, self, season) ==
    [result |-> IF call.result.kind = "raise" THEN call.result
                ELSE IF ~DictHas(call.result.value.items, season)
                THEN Raise(KeyError)
                ELSE Return(DictGet(call.result.value.items, season)),
     response |-> call.response,
     rcache |-> IF call.result.kind = "return"
                   /\ DictHas(call.result.value.items, season)
                THEN Append(rcache,
                            [key |-> <<self, season>>,
                             value |-> DictGet(call.result.value.items, season)])
                ELSE rcache,
     scache |-> call.cache,
     oid |-> call.oid]

\* self.season_record(season), the cached method.
SeasonRecordCall(rcache, scache, oid, self, season, script, debug) ==
    IF RecordCacheFind(rcache, self, season) # None
    THEN [result |-> Return(RecordCacheFind(rcache, self, season)[1].value),
          response |-> None, rcache |-> rcache, scache |-> scache, oid |-> oid]
    ELSE SeasonRecordMiss(StatisticsCall(scache, oid, self, script, debug),
                          rcache, self, season)

-----------------------------------------------------------------------------
(* Season *)

\* The url Season._get_teams fetches.
TeamsUrl(self) ==
    BASE_URL \o <<"/", "t", "e", "a", "m", "s", "?", "t", "y", "p", "e", "=", "a", "l", "l", "&", "l", "g", "=">> \o LEAGUE_NUMBER \o <<"&", "r", "=">>
    \o self.season \o <<"0", "0">> \o self.week \o <<"&", "s", "e", "t", "=", "t", "r", "u", "e">>

\* Season(season, week, league): the fields are set and _get_teams, the
\* retried method, fills _teams; an exception of _get_teams leaves __init__.
\* The call's result (the Season), and the urls it fetched.
SeasonInit(season, week, league, k, fails, debug) ==
    LET self == [season |-> season, week |-> week, league |-> league]
        url == TeamsUrl(self)
        script == ScriptFor(url, k, fails)
        run == RetryRun([i \in 1..Len(script) |-> GetTeamsBody(self, script[i], debug)])
    IN  [result |-> IF run.result.kind = "return"
                    THEN Return([season |-> season, week |-> week, league |-> league,
                                 teams |-> run.result.value])
                    ELSE run.result,
         fetched |-> [i \in 1..run.calls |-> url]]

SeasonCodes == { <<"2", "3">>, <<"2", "2">>, <<"0", "7">> }
Weeks == { WEEK_NUMBER, <<"0", "2">> }
Leagues == { LEAGUE_NUMBER, <<"3", "9">>, <<"1", "6">> }

SeasonIdle ==
    /\ theSeason = None
    /\ seasonCall = None

\* Season(season, week, league)
ConstructSeason ==
    \E season \in SeasonCodes, week \in Weeks, league \in Leagues,
       k \in 0..MaxRetries, fails \in BOOLEAN :
      \E call \in { SeasonInit(season, week, league, k, fails, ~optimize) } :
        /\ theSeason' = IF call.result.kind = "return"
                        THEN Some(call.result.value) ELSE None
        /\ seasonCall' = Some([season |-> season, week |-> week, league |-> league,
                               fetched |-> call.fetched, result |-> call.result])
        /\ UNCHANGED optimize

SeasonNext ==
    ConstructSeason /\ UNCHANGED <<retryVars, extractVars, memoVars, writeVars, setVars>>

\* C10: Season(season, week, league) fetches its team listing from the url
\* built from its own league, week and season code: the league identifier in
\* the fetched url is the league passed to the constructor, and every Team it
\* creates carries its season and week.
C10_ListingUrlOfInstance ==
    seasonCall # None =>
        LET c == seasonCall[1] IN
        /\ c.fetched # <<>>
        /\ \A i \in 1..Len(c.fetched) :
             /\ QueryParam(c.fetched[i], <<"l", "g">>) = Some(c.league)
             /\ QueryParam(c.fetched[i], <<"r">>)
                  = Some(generate_season_query(c.season, c.week))
        /\ c.result.kind = "return" =>
             \A j \in 1..Len(c.result.value.teams) :
                 /\ c.result.value.teams[j][2].season = c.season
                 /\ c.result.value.teams[j][2].week = c.week

-----------------------------------------------------------------------------
(* Calls of the memoized accessors, under Season("23") *)

\* The teams of Season("23"), in the order of its mapping.
SeasonTeams ==
    DictValues(SeasonInit(<<"2", "3">>, WEEK_NUMBER, LEAGUE_NUMBER, 0, FALSE, TRUE)
                 .result.value.teams)

\* The Player instances the cached rosters hold.
PlayersAlive ==
    UNION { { playersCache[i].value.items[j][2] :
                j \in 1..Len(playersCache[i].value.items) } :
            i \in 1..Len(playersCache) }

MemoIdle ==
    /\ playersCache = <<>>
    /\ statsCache = <<>>
    /\ recordCache = <<>>
    /\ nextOid = 1
    /\ called = {}
    /\ returned = {}
    /\ lastCall = None

\* What a call leaves in the history: fn and self name the call, repeat says
\* that self had been called before, prior holds the mappings self's earlier
\* calls returned.
CallRecord(fn, self, call) ==
    [fn |-> fn, self |-> self,
     repeat |-> <<fn, self>> \in called,
     prior |-> { m \in returned : m[1] = fn /\ m[2] = self },
     fetched |-> call.fetched,
     response |-> call.response,
     result |-> call.result]

Note(fn, self, call) ==
    /\ lastCall' = Some(CallRecord(fn, self, call))
    /\ called' = called \cup {<<fn, self>>}
    /\ returned' =
         IF call.result.kind = "return"
         THEN returned \cup {<<fn, self, call.result.value>>}
         ELSE returned

\* team.players() on the t-th team of the season.
CallPlayers ==
    \E t \in 1..Len(SeasonTeams), k \in 0..MaxRetries, fails \in BOOLEAN :
      \E call \in { PlayersCall(playersCache, nextOid, t, SeasonTeams[t],
                                 ScriptFor(TeamUrl(SeasonTeams[t]), k, fails),
                                 ~optimize) } :
            /\ playersCache' = call.cache
            /\ nextOid' = call.oid
            /\ Note("players", t, call)
            /\ UNCHANGED <<statsCache, recordCache, optimize>>

\* player.statistics() on a Player of a roster.
CallStatistics ==
    \E self \in PlayersAlive, k \in 0..MaxRetries, fails \in BOOLEAN :
      \E call \in { StatisticsCall(statsCache, nextOid, self,
                                    ScriptFor(PlayerUrl(self), k, fails),
                                    ~optimize) } :
            /\ statsCache' = call.cache
            /\ nextOid' = call.oid
            /\ Note("statistics", self.oid, call)
            /\ UNCHANGED <<playersCache, recordCache, optimize>>

MemoNext ==
    \/ CallPlayers /\ UNCHANGED <<retryVars, extractVars, writeVars, setVars, seasonVars>>
    \/ CallStatistics /\ UNCHANGED <<retryVars, extractVars, writeVars, setVars, seasonVars>>

-----------------------------------------------------------------------------
(* Claims about the memoized accessors *)

C4_NoTableEmptyMapping ==
    (/\ lastCall # None
     /\ lastCall[1].fn = "statistics"
     /\ lastCall[1].response # None
     /\ lastCall[1].response[1].kind = "return"
     /\ ~lastCall[1].response[1].value.table)
    => /\ lastCall[1].result.kind = "return"
       /\ lastCall[1].result.value.items = <<>>

\* The Player object of a roster that has the identity oid.
PlayerOf(oid) == CHOOSE p \in PlayersAlive : p.oid = oid

\* The mappings statistics() has returned to Players equal to self that are
\* other objects than self.
ReturnedToEqual(self) ==
    { m \in returned :
        /\ m[1] = "statistics"
        /\ m[2] # self.oid
        /\ PlayerOf(m[2]).identifier = self.identifier }

\* The Player the cache of statistics holds mapping under.
StoredUnder(mapping) ==
    { statsCache[i].key : i \in { j \in 1..Len(statsCache) :
                                    statsCache[j].value = mapping } }

\* C11: the memo of Player.statistics() is keyed by Player equality, the
\* identifier, not by object identity: once statistics() has returned on one
\* Player, a call on any other Player object with the same identifier
\* fetches nothing and returns that very mapping, whose records refer back
\* to the Player it was computed on, under that Player's name; a call that
\* raised stores nothing, so a call fetches exactly when neither its Player
\* nor an equal one has been returned a mapping before.
C11_MemoKeyedByIdentifier ==
    (lastCall # None /\ lastCall[1].fn = "statistics") =>
        LET c == lastCall[1]
            self == PlayerOf(c.self)
        IN  /\ \A m \in ReturnedToEqual(self) :
                 /\ c.fetched = <<>>
                 /\ c.result = Return(m[3])
                 /\ \E first \in StoredUnder(m[3]) :
                      /\ StoredUnder(m[3]) = {first}
                      /\ first.identifier = self.identifier
                      /\ <<"statistics", first.oid, m[3]>> \in returned
                      /\ \A i \in 1..Len(m[3].items) :
                           m[3].items[i][2].player = first
            /\ (c.fetched = <<>>) <=> (c.prior # {} \/ ReturnedToEqual(self) # {})
            /\ c.result.kind = "raise" =>
                 /\ c.fetched # <<>>
                 /\ \A i \in 1..Len(statsCache) :
                      statsCache[i].key.identifier # self.identifier

\* statistics() on one Player is answered, without a fetch, by the mapping
\* computed on another Player of the same identifier and another name.
C11_Witness ==
    /\ lastCall # None
    /\ lastCall[1].fn = "statistics"
    /\ lastCall[1].prior = {}
    /\ lastCall[1].fetched = <<>>
    /\ lastCall[1].result.kind = "return"
    /\ lastCall[1].result.value.items # <<>>
    /\ \A i \in 1..Len(lastCall[1].result.value.items) :
         /\ lastCall[1].result.value.items[i][2].player.oid # lastCall[1].self
         /\ lastCall[1].result.value.items[i][2].player.identifier
              = PlayerOf(lastCall[1].self).identifier
         /\ lastCall[1].result.value.items[i][2].player.name
              # PlayerOf(lastCall[1].self).name

-----------------------------------------------------------------------------
(* write_players *)

\* The season write_players asks every player for.
WrittenSeason == <<"2", "3">>

\* The players of the lists handed to write_players: Players as the rosters
\* hold them, two of them the same player under two names.
WritePool ==
    { Player(1, <<"A", "n", "n">>, <<"1", "0">>), Player(2, <<"A", ".", " ", "L", "e", "e">>, <<"1", "0">>),
      Player(3, <<"C", "y">>, <<"2", "0">>), Player(4, <<"B", "o">>, <<"3", "0">>) }

\* The longest list handed to write_players.
MaxPlayers == 3

PlayerLists == UNION { [1..n -> WritePool] : n \in 0..MaxPlayers }

WriteIdle ==
    /\ wp = [status |-> "idle", players |-> <<>>, i |-> 1, error |-> None]
    /\ written = <<>>

\* write_players(players, writer) is called, with a new writer; written is
\* what the writer has been given.
WriteStart ==
    /\ wp.status # "running"
    /\ \E players \in PlayerLists :
         wp' = [status |-> IF players = <<>> THEN "done" ELSE "running",
                players |-> players, i |-> 1, error |-> None]
    /\ written' = <<>>
    /\ UNCHANGED <<memoVars, optimize>>

\* One pass of the loop of write_players.  The site answers with what it
\* holds, after at most MaxRetries throttled requests.
WriteIter ==
    /\ wp.status = "running"
    /\ \E k \in 0..MaxRetries :
       \E call \in { SeasonRecordCall(recordCache, statsCache, nextOid,
                                      wp.players[wp.i], WrittenSeason,
                                      ScriptFor(PlayerUrl(wp.players[wp.i]), k, FALSE),
                                      ~optimize) } :
         /\ recordCache' = call.rcache
         /\ statsCache' = call.scache
         /\ nextOid' = call.oid
         /\ IF call.result.kind = "raise" /\ call.result.error # KeyError
            THEN /\ wp' = [wp EXCEPT !.status = "raised",
                                     !.error = Some(call.result.error)]
                 /\ UNCHANGED written
            ELSE /\ wp' = [wp EXCEPT !.status = IF wp.i = Len(wp.players)
                                                THEN "done" ELSE "running",
                                     !.i = wp.i + 1]
                 /\ written' = IF call.result.kind = "raise"
                               THEN written
                               ELSE Append(written, call.result.value)
    /\ UNCHANGED <<playersCache, called, returned, lastCall, optimize>>

WriteNext ==
    \/ WriteStart /\ UNCHANGED <<retryVars, extractVars, setVars, seasonVars>>
    \/ WriteIter /\ UNCHANGED <<retryVars, extractVars, setVars, seasonVars>>

\* The records write_players owes the writer for players, in list order:
\* the season's record of every player whose statistics hold the season.
RECURSIVE OwedRecords(_)
OwedRecords(players) ==
    IF players = <<>> THEN <<>>
    ELSE LET stats == StatsCacheFind(statsCache, players[1]) IN
         (IF stats # None /\ DictHas(stats[1].value.items, WrittenSeason)
          THEN <<DictGet(stats[1].value.items, WrittenSeason)>>
          ELSE <<>>)
         \o OwedRecords(SubSeq(players, 2, Len(players)))

\* C5: write_players skips a player whose statistics lack the requested
\* season, a new player with no recorded seasons included, without an error
\* leaving write_players, and writes the season record of every other player
\* of the list, before and after the skipped one, in list order.
C5_MissingSeasonSkipped ==
    wp.status \in {"done", "raised"}
    => /\ wp.status = "done"
       /\ written = OwedRecords(wp.players)

-----------------------------------------------------------------------------
(* Sets of Players *)

PoolIdentifiers == << <<"1", "0">>, <<"1", "3">>, <<"2", "0">> >>
PoolNames == << <<"A", "n", "n">>, <<"A", ".", " ", "L", "e", "e">>, <<"C", "y">> >>

\* The Player instances the rosters hold: every identifier under every name,
\* each a different object.
SetPool ==
    { Player(Len(PoolNames) * (i - 1) + j, PoolNames[j], PoolIdentifiers[i]) :
        i \in 1..Len(PoolIdentifiers), j \in 1..Len(PoolNames) }

\* The longest roster united into the set in one step.
MaxRoster == 2

Rosters == UNION { [1..n -> SetPool] : n \in 1..MaxRoster }

\* set.add(p): p is left out when the set holds a key that matches it.
SetAdd(s, p) ==
    IF \E q \in s : PlayerKeyMatch(q, p) THEN s ELSE s \cup {p}

\* set.update(values), values in iteration order
RECURSIVE SetUpdate(_, _)
SetUpdate(s, values) ==
    IF values = <<>> THEN s
    ELSE SetUpdate(SetAdd(s, values[1]), SubSeq(values, 2, Len(values)))

SetIdle ==
    /\ pset = {}
    /\ offered = {}

\* set().union(*map(lambda team: team.players().values(), ...)) takes in the
\* players of one more team, or of one more season.
UnionWith ==
    \E values \in Rosters :
        /\ pset' = SetUpdate(pset, values)
        /\ offered' = offered \cup { values[i] : i \in 1..Len(values) }

SetNext ==
    UnionWith /\ UNCHANGED <<optimize, retryVars, extractVars, memoVars, writeVars, seasonVars>>

\* C9: two Players compare equal exactly when their identifiers are equal,
\* whatever their names, and equal Players have the same hash; so the union
\* of the players of several teams or seasons holds exactly one element for
\* every identifier among them.
C9_OnePlayerPerIdentifier ==
    /\ \A p \in offered, q \in offered :
         /\ Player__eq__(p, q) <=> p.identifier = q.identifier
         /\ Player__eq__(p, q) => Player__hash__(p) = Player__hash__(q)
    /\ \A p \in offered : Cardinality({ q \in pset : q.identifier = p.identifier }) = 1
    /\ pset \subseteq offered

C9_Witness ==
    /\ Cardinality(pset) >= 2
    /\ \E p \in pset, q \in offered :
         /\ q \notin pset
         /\ q.identifier = p.identifier
         /\ q.name # p.name
    /\ \E p \in pset, q \in pset :
         /\ p.identifier # q.identifier
         /\ p.name = q.name
         /\ Player__hash__(p) = Player__hash__(q)

-----------------------------------------------------------------------------
(* The specifications *)

\* One invocation after another of a retry_from_header decorator.
RetryInit ==
    /\ RetryIdle /\ ExtractIdle /\ MemoIdle /\ WriteIdle /\ SetIdle /\ SeasonIdle
    /\ optimize = FALSE
SpecRetry == RetryInit /\ [][RetryNext]_vars

\* One extraction method of Player applied to one row.
ExtractSpecInit ==
    /\ RetryIdle /\ ExtractInit /\ MemoIdle /\ WriteIdle /\ SetIdle /\ SeasonIdle
SpecExtract == ExtractSpecInit /\ [][ExtractNext]_vars

\* The memoized accessors of the teams and players of Season("23").
MemoInit ==
    /\ RetryIdle /\ ExtractIdle /\ MemoIdle /\ WriteIdle /\ SetIdle /\ SeasonIdle
    /\ optimize \in BOOLEAN
Spec == MemoInit /\ [][MemoNext]_vars

\* Calls of write_players in a process whose caches start empty.
WriteInit ==
    /\ RetryIdle /\ ExtractIdle /\ WriteIdle /\ SetIdle /\ SeasonIdle
    /\ playersCache = <<>>
    /\ statsCache = <<>>
    /\ recordCache = <<>>
    /\ nextOid = Cardinality(WritePool) + 1
    /\ called = {}
    /\ returned = {}
    /\ lastCall = None
    /\ optimize \in BOOLEAN
SpecWrite == WriteInit /\ [][WriteNext]_vars

\* A set of Players growing by unions.
SetInit ==
    /\ RetryIdle /\ ExtractIdle /\ MemoIdle /\ WriteIdle /\ SetIdle /\ SeasonIdle
    /\ optimize = FALSE
SpecSet == SetInit /\ [][SetNext]_vars

\* Constructions of Season.
SeasonSpecInit ==
    /\ RetryIdle /\ ExtractIdle /\ MemoIdle /\ WriteIdle /\ SetIdle /\ SeasonIdle
    /\ optimize \in BOOLEAN
SpecSeason == SeasonSpecInit /\ [][SeasonNext]_vars

=============================================================================
